---- MODULE Spec2Model ----
(***************************************************************************)
(* T2AutoTron local agent (localAgent/t2_agent.py): the HTTP dispatcher,   *)
(* the Chatterbox lifecycle functions and the installation validator,      *)
(* together with the part of the operating system they observe: the        *)
(* companion processes, the companion port and the installation folder.    *)
(***************************************************************************)
EXTENDS Integers, Sequences, FiniteSets, TLC

\* ------------------------------------------------------------------ bounds
\* Number of companion processes the agent spawned that are alive, or still
\* referred to by the handle, at one time.
MaxSpawn == 2

\* ------------------------------------------------------- program constants
DEFAULT_PORT == 5050
CHATTERBOX_PORT == 8100
CHATTERBOX_SCRIPTS == <<"server.py", "run_api_server.py", "app.py">>

\* ------------------------------------------------------------- environment
\* Process 0 is a process the agent did not spawn in this session (an
\* unrelated program, or a companion left over from an earlier session);
\* 1..MaxSpawn are the processes Popen creates.
Foreign == 0
Spawned == 1..MaxSpawn
Procs == {Foreign} \cup Spawned
\* "none": not created (or, for Foreign, gone); "starting": alive, port not
\* bound yet; "bound": accepts TCP connections, answers no HTTP request;
\* "serving": answers HTTP; "exited": terminated.
Platforms == {"Windows", "Posix"}

\* Directory paths and the names a directory may contain.
Dirs == {"d1", "d2"}
Paths == {"", "d1", "d2", "d3"}
Files == {"server.py", "run_api_server.py", "app.py", "readme.txt"}
Missing == [kind |-> "missing", entries |-> {}]
FsEntries == {Missing, [kind |-> "file", entries |-> {}]}
                \cup {[kind |-> "dir", entries |-> e] : e \in SUBSET Files}

\* Requests: a method and a target; the target is the path, optionally
\* followed by "?" and a query string.
Methods == {"GET", "POST", "OPTIONS", "PUT"}
Targets == { <<"/">>, <<"/status">>, <<"/chatterbox/status">>,
             <<"/chatterbox/start">>, <<"/chatterbox/stop">>,
             <<"/status", "?", "t=1">>, <<"/favicon.ico">> }
Requests == [method : Methods, target : Targets]

VARIABLES
    platform,            \* platform.system()
    proc,                \* state of every process
    chatterbox_process,  \* the global handle: 0 is None, else the Popen's pid
    config,              \* the global config record
    fs,                  \* the file system: directory path -> kind and entries
    resolver,            \* TRUE iff the name "localhost" resolves
    pc,                  \* where the single server thread is
    cur,                 \* the request being handled (or handled last)
    resp,                \* the response to cur, once it is written
    vpath,               \* argument of the last validate_chatterbox_dir call
    vres,                \* its result
    cfgfile,             \* the file t2_agent_config.json
    auto                 \* result of the last find_chatterbox_auto call

vars == <<platform, proc, chatterbox_process, config, fs, resolver,
          pc, cur, resp, vpath, vres, cfgfile, auto>>

\* ------------------------------------------------------------ file system
isdir(path) == path \in DOMAIN fs /\ fs[path].kind = "dir"
\* os.path.join(dir, name) is the pair; it exists iff dir is a directory
\* that has the entry.
join(dir, name) == <<dir, name>>
exists(p) == isdir(p[1]) /\ p[2] \in fs[p[1]].entries

\* The last script, in the order of CHATTERBOX_SCRIPTS, whose path exists.
RECURSIVE LastScript(_, _)
LastScript(path, i) ==
    IF i > Len(CHATTERBOX_SCRIPTS) THEN ""
    ELSE LET later == LastScript(path, i + 1) IN
         IF later # "" THEN later
         ELSE IF exists(join(path, CHATTERBOX_SCRIPTS[i])) THEN CHATTERBOX_SCRIPTS[i]
         ELSE ""

\* The loop of validate_chatterbox_dir: the first script, in the order of
\* CHATTERBOX_SCRIPTS, whose path exists; "" when the loop ends without one.
RECURSIVE first_script(_, _)
first_script(path, i) ==
    IF i > Len(CHATTERBOX_SCRIPTS) THEN ""
    ELSE IF exists(join(path, CHATTERBOX_SCRIPTS[i])) THEN CHATTERBOX_SCRIPTS[i]
    ELSE first_script(path, i + 1)

validate_chatterbox_dir(path) ==
    IF path = "" \/ ~isdir(path)
    THEN [valid |-> FALSE, result |-> "Directory does not exist"]
    ELSE LET s == first_script(path, 1) IN
         IF s # ""
         THEN [valid |-> TRUE, result |-> s]
         ELSE [valid |-> FALSE,
               result |-> "Could not find Chatterbox scripts in this folder"]

\* The candidate folders of find_chatterbox_auto, in its order: a fixed list
\* of well-known paths (three stand for the thirteen); the first one is a
\* path at which nothing exists.
common_locations == <<"d3", "d1", "d2">>

\* (None, None)
NotFoundAuto == [path |-> "", script |-> ""]

\* for script in CHATTERBOX_SCRIPTS: if exists(join(loc, script)): return
RECURSIVE auto_script(_, _)
auto_script(loc, i) ==
    IF i > Len(CHATTERBOX_SCRIPTS) THEN ""
    ELSE IF exists(join(loc, CHATTERBOX_SCRIPTS[i])) THEN CHATTERBOX_SCRIPTS[i]
    ELSE auto_script(loc, i + 1)

\* A search in which a later valid candidate replaces an earlier one.
RECURSIVE LastCandidate(_)
LastCandidate(i) ==
    IF i > Len(common_locations) THEN NotFoundAuto
    ELSE LET later == LastCandidate(i + 1)
             loc == common_locations[i]
             s == IF isdir(loc) THEN auto_script(loc, 1) ELSE ""
         IN  IF later # NotFoundAuto THEN later
             ELSE IF s # "" THEN [path |-> loc, script |-> s]
             ELSE NotFoundAuto

\* for loc in common_locations: if os.path.isdir(loc): ... return loc, script
RECURSIVE auto_from(_)
auto_from(i) ==
    IF i > Len(common_locations) THEN NotFoundAuto
    ELSE LET loc == common_locations[i]
             s == IF isdir(loc) THEN auto_script(loc, 1) ELSE ""
         IN  IF s # "" THEN [path |-> loc, script |-> s]
             ELSE auto_from(i + 1)

find_chatterbox_auto == auto_from(1)

\* ------------------------------------------------------------- processes
IsAlive(p, x) == p[x] \in {"starting", "bound", "serving"}
Holders(p) == {x \in Procs : p[x] \in {"bound", "serving"}}
\* Process x of p is gone.
terminated(p, x) == [p EXCEPT ![x] = IF x = Foreign THEN "none" ELSE "exited"]
\* An exited process is remembered only while the handle h refers to it:
\* a Popen object that chatterbox_process no longer names is dropped.
forget(p, h) ==
    [x \in Procs |-> IF p[x] = "exited" /\ x # h THEN "none" ELSE p[x]]
\* Popen creates a process that does not exist yet.
FreePids == {x \in Spawned : proc[x] = "none"}
NextPid == CHOOSE x \in FreePids : \A y \in FreePids : x <= y

\* ------------------------------------------------------------ the probes
Returned(v) == [raised |-> FALSE, value |-> v]
Raised == [raised |-> TRUE, value |-> FALSE]

\* urllib.request.urlopen("http://localhost:{port}/", timeout=2) returns:
\* the name resolves and the process on the port answers the request.
urlopen_ok == resolver /\ \E x \in Procs : proc[x] = "serving"

\* socket.connect_ex(('localhost', port)) == 0; resolving the name is not
\* among the errors connect_ex turns into a code, so that failure raises.
is_port_in_use ==
    IF ~resolver THEN Raised ELSE Returned(Holders(proc) # {})

\* A probe without the TCP fallback.
HttpOnlyProbe == Returned(urlopen_ok)

\* try: urlopen ... return True / except: pass / return is_port_in_use(port)
is_chatterbox_running ==
    IF urlopen_ok THEN Returned(TRUE) ELSE is_port_in_use

\* ----------------------------------------------------- requests, responses
NoReq == [method |-> "", target |-> <<>>]
NoBody == [none |-> TRUE]
Has(b, k) == k \in DOMAIN b
\* status 0: no response was written.
NoResp == [status |-> 0, kind |-> "none", body |-> NoBody]
\* The handler raised: socketserver reports it and closes the connection.
Exception == [status |-> 0, kind |-> "exception", body |-> NoBody]
send_json(data, status) == [status |-> status, kind |-> "json", body |-> data]
\* BaseHTTPRequestHandler's answer to a method that has no do_ method.
Unsupported501 == [status |-> 501, kind |-> "html", body |-> NoBody]
NotFound == send_json([error |-> "Not found"], 404)

\* self.path.split('?')[0]
RECURSIVE split0(_)
split0(t) ==
    IF t = <<>> \/ Head(t) = "?" THEN <<>> ELSE <<Head(t)>> \o split0(Tail(t))

HandleKind(h) == IF h = 0 THEN "absent"
                 ELSE IF IsAlive(proc, h) THEN "live" ELSE "stale"

OpOf(req) ==
    IF req.method = "POST" /\ split0(req.target) = <<"/chatterbox/start">> THEN "start"
    ELSE IF req.method = "POST" /\ split0(req.target) = <<"/chatterbox/stop">> THEN "stop"
    ELSE "other"

\* What the response before the current request was, as far as a later
\* start or stop is concerned.
After(r) ==
    IF Has(r.body, "pid") THEN "spawned"
    ELSE IF Has(r.body, "alreadyRunning") THEN "already"
    ELSE "other"

\* The request taken from the socket, with what the properties need of the
\* moment its handler was entered (the handlers do not read these fields):
\* after: the response before it was that of a start that succeeded; for a
\* stop, handleKind and probe: the handle and the liveness probe.
Entry(req) ==
    [req |-> req,
     after |-> IF OpOf(req) = "other" THEN "other" ELSE After(resp),
     handleKind |-> IF OpOf(req) = "stop" THEN HandleKind(chatterbox_process)
                    ELSE "absent",
     probe |-> IF OpOf(req) = "stop" THEN is_chatterbox_running ELSE Raised]

\* ------------------------------------------------------- start_chatterbox
script_path == join(config.chatterbox_dir, config.chatterbox_script)

\* A start that does not look for the script.
StartSkipsScriptCheck(r, found, spawnOK) ==
    IF r.raised THEN "raise"
    ELSE IF r.value THEN "already_running"
    ELSE IF ~spawnOK THEN "spawn_failed"
    ELSE "spawn"

\* A start that looks for the script before it probes the port.
ScriptCheckedFirst(r, found, spawnOK) ==
    IF ~found THEN "script_not_found"
    ELSE IF r.raised THEN "raise"
    ELSE IF r.value THEN "already_running"
    ELSE IF ~spawnOK THEN "spawn_failed"
    ELSE "spawn"

\* The branch start_chatterbox takes: r is the outcome of
\* is_chatterbox_running(), found is os.path.exists(script_path), spawnOK
\* is whether Popen returns (it raises otherwise). A missing interpreter
\* is replaced by sys.executable and decides nothing.
start_branch(r, found, spawnOK) ==
    IF r.raised THEN "raise"
    ELSE IF r.value THEN "already_running"
    ELSE IF ~found THEN "script_not_found"
    ELSE IF ~spawnOK THEN "spawn_failed"
    ELSE "spawn"

AlreadyRunning ==
    send_json([success |-> TRUE, message |-> "Already running",
               alreadyRunning |-> TRUE], 200)
ScriptNotFound ==
    send_json([success |-> FALSE,
               error |-> [text |-> "Script not found: ", path |-> script_path],
               hint |-> "Delete t2_agent_config.json to reconfigure"], 200)
\* except Exception as e: the error is str(e), the text of the OS error.
SpawnFailed ==
    send_json([success |-> FALSE,
               error |-> [text |-> "OSError", path |-> <<>>]], 200)
Started(pid) ==
    send_json([success |-> TRUE, message |-> "Chatterbox started",
               pid |-> pid], 200)

\* ------------------------------------------------------- stop_chatterbox
\* Whether the kill of the handle raises: subprocess.run cannot start
\* taskkill (Windows), or os.kill fails on a live child (Posix; terminate()
\* polls first and sends no signal to a child that has exited).
kill_raises(h, outcome) ==
    /\ h # 0
    /\ outcome = "raised"
    /\ platform = "Windows" \/ IsAlive(proc, h)

\* The processes after "if chatterbox_process: ...": outcome "killed" is a
\* kill that ends the process, "survived" one that does not.
kill_handle(p, h, outcome) ==
    IF h # 0 /\ IsAlive(p, h) /\ outcome = "killed" THEN terminated(p, h) ELSE p

\* chatterbox_process = None comes after the kill inside the try.
handle_after(h, outcome) == IF kill_raises(h, outcome) THEN h ELSE 0

\* A sweep that ends every live process, on the port or not.
SweepKillsEveryCompanion(p, outcome) ==
    IF platform = "Windows" /\ outcome = "killed"
    THEN [x \in Procs |-> IF IsAlive(p, x) THEN terminated(p, x)[x] ELSE p[x]]
    ELSE p

\* "Also kill any process on the port": netstat | findstr LISTEN, then
\* taskkill /F of each pid found; only under Windows.
port_sweep(p, outcome) ==
    IF platform = "Windows" /\ outcome = "killed"
    THEN [x \in Procs |-> IF x \in Holders(p) THEN terminated(p, x)[x] ELSE p[x]]
    ELSE p

Stopped == send_json([success |-> TRUE, message |-> "Stopped"], 200)
FailedToStop == send_json([success |-> FALSE, error |-> "Failed to stop"], 200)

\* A result that does not depend on the probe.
StopAlwaysSucceeds(running) == Stopped

\* if not is_chatterbox_running(): ... else: ...
stop_result(running) == IF ~running THEN Stopped ELSE FailedToStop

\* ------------------------------------------------------------ AgentHandler
\* The do_ methods AgentHandler defines; a request with any other method is
\* answered by BaseHTTPRequestHandler itself.
has_handler(method) == method \in {"OPTIONS", "GET", "POST"}

get_route(path) ==
    IF path \in {<<"/">>, <<"/status">>} THEN "agent_status"
    ELSE IF path = <<"/chatterbox/status">> THEN "chatterbox_status"
    ELSE "not_found"

post_route(path) ==
    IF path = <<"/chatterbox/start">> THEN "start"
    ELSE IF path = <<"/chatterbox/stop">> THEN "stop"
    ELSE "not_found"

AgentStatus ==
    send_json([agent |-> "T2AutoTron Local Agent", version |-> "1.1.0",
               running |-> TRUE], 200)
ChatterboxStatus(running) ==
    send_json([running |-> running, port |-> config.chatterbox_port,
               processManaged |-> chatterbox_process # 0], 200)
\* do_OPTIONS: status 200, the CORS headers, no body.
OptionsReply == [status |-> 200, kind |-> "empty", body |-> NoBody]

\* A server that takes a request while a handler is still running.
AcceptWhileBusy(req) ==
    /\ pc \in {"idle", "start_sleep", "stop_sleep"}
    /\ UNCHANGED <<config, platform, fs, resolver, vpath, vres, cfgfile, auto>>

\* serve_forever takes the next request only when the previous one has been
\* handled: HTTPServer handles requests in its one thread.
Accept(req) ==
    /\ pc = "idle"
    /\ UNCHANGED <<config, platform, fs, resolver, vpath, vres, cfgfile, auto>>

\* A handler that drops a handle whose process has exited.
FinishDropsDeadHandle(req, response) ==
    /\ pc' = "idle"
    /\ cur' = Entry(req)
    /\ resp' = response
    /\ chatterbox_process' =
          IF HandleKind(chatterbox_process) = "stale" THEN 0 ELSE chatterbox_process
    /\ proc' = forget(proc, chatterbox_process')

\* The handler returns (or raises) without touching handle or processes.
Finish(req, response) ==
    /\ pc' = "idle"
    /\ cur' = Entry(req)
    /\ resp' = response
    /\ UNCHANGED <<chatterbox_process, proc>>

UnsupportedMethod(req) ==
    /\ ~has_handler(req.method)
    /\ Accept(req)
    /\ Finish(req, Unsupported501)

do_OPTIONS(req) ==
    /\ req.method = "OPTIONS"
    /\ Accept(req)
    /\ Finish(req, OptionsReply)

GetAgentStatus(req) ==
    /\ req.method = "GET"
    /\ get_route(split0(req.target)) = "agent_status"
    /\ Accept(req)
    /\ Finish(req, AgentStatus)

GetChatterboxStatus(req) ==
    /\ req.method = "GET"
    /\ get_route(split0(req.target)) = "chatterbox_status"
    /\ Accept(req)
    /\ LET r == is_chatterbox_running IN
       Finish(req, IF r.raised THEN Exception ELSE ChatterboxStatus(r.value))

GetNotFound(req) ==
    /\ req.method = "GET"
    /\ get_route(split0(req.target)) = "not_found"
    /\ Accept(req)
    /\ Finish(req, NotFound)

PostNotFound(req) ==
    /\ req.method = "POST"
    /\ post_route(split0(req.target)) = "not_found"
    /\ Accept(req)
    /\ Finish(req, NotFound)

\* POST /chatterbox/start: start_chatterbox up to its return or its sleep.
PostStart(req, spawnOK) ==
    /\ req.method = "POST"
    /\ post_route(split0(req.target)) = "start"
    /\ Accept(req)
    /\ LET b == start_branch(is_chatterbox_running, exists(script_path), spawnOK)
       IN  CASE b = "raise" -> Finish(req, Exception)
             [] b = "already_running" -> Finish(req, AlreadyRunning)
             [] b = "script_not_found" -> Finish(req, ScriptNotFound)
             [] b = "spawn_failed" -> Finish(req, SpawnFailed)
             [] b = "spawn" ->
                  /\ FreePids # {}
                  /\ proc' = forget([proc EXCEPT ![NextPid] = "starting"], NextPid)
                  /\ chatterbox_process' = NextPid
                  /\ cur' = Entry(req)
                  /\ resp' = NoResp
                  /\ pc' = "start_sleep"

\* time.sleep(2) is over: the result is built from the handle.
StartReturn ==
    /\ pc = "start_sleep"
    /\ pc' = "idle"
    /\ resp' = Started(chatterbox_process)
    /\ UNCHANGED <<chatterbox_process, config, cur, platform, proc,
                   fs, resolver, vpath, vres, cfgfile, auto>>

\* POST /chatterbox/stop: stop_chatterbox up to its sleep; kill is the
\* outcome of the kill of the handle, sweep that of the port sweep.
PostStop(req, kill, sweep) ==
    /\ req.method = "POST"
    /\ post_route(split0(req.target)) = "stop"
    /\ Accept(req)
    /\ LET h == chatterbox_process
           p1 == IF kill_raises(h, kill) THEN proc ELSE kill_handle(proc, h, kill)
           p2 == port_sweep(p1, sweep)
       IN  /\ chatterbox_process' = handle_after(h, kill)
           /\ proc' = forget(p2, handle_after(h, kill))
           /\ cur' = Entry(req)
           /\ resp' = NoResp
           /\ pc' = "stop_sleep"

\* time.sleep(1) is over: the probe decides the result.
StopReturn ==
    /\ pc = "stop_sleep"
    /\ pc' = "idle"
    /\ LET r == is_chatterbox_running IN
       resp' = IF r.raised THEN Exception ELSE stop_result(r.value)
    /\ UNCHANGED <<chatterbox_process, config, cur, platform, proc,
                   fs, resolver, vpath, vres, cfgfile, auto>>

\* ------------------------------------------------------------ environment
EnvStep(newProc, newFs, newResolver) ==
    /\ proc' = forget(newProc, chatterbox_process)
    /\ fs' = newFs
    /\ resolver' = newResolver
    /\ UNCHANGED <<chatterbox_process, config, pc, cur, resp, platform,
                   vpath, vres, cfgfile, auto>>

\* A process that has not bound the port binds it, if the port is free.
Binds(x) ==
    /\ proc[x] = IF x = Foreign THEN "none" ELSE "starting"
    /\ Holders(proc) = {}
    /\ EnvStep([proc EXCEPT ![x] = "bound"], fs, resolver)

\* The process on the port begins to answer HTTP requests.
Serves(x) ==
    /\ proc[x] = "bound"
    /\ EnvStep([proc EXCEPT ![x] = "serving"], fs, resolver)

\* A process ends on its own (it fails, finishes, or someone else ends it).
Exits(x) ==
    /\ IsAlive(proc, x)
    /\ EnvStep(terminated(proc, x), fs, resolver)

\* The installation folder is removed or renamed.
RemoveDir ==
    /\ isdir(config.chatterbox_dir)
    /\ EnvStep(proc, [fs EXCEPT ![config.chatterbox_dir] = Missing], resolver)

\* Name resolution of "localhost" breaks or is repaired.
ResolverChanges ==
    /\ resolver \in BOOLEAN
    /\ EnvStep(proc, fs, ~resolver)

\* ----------------------------------------------------------------- startup
\* config = {} as the .get calls with their defaults read it.
EmptyConfig ==
    [chatterbox_dir |-> "", chatterbox_script |-> "server.py",
     chatterbox_port |-> CHATTERBOX_PORT, agent_port |-> DEFAULT_PORT,
     setup_complete |-> FALSE]
\* The config file: "absent"; "garbage", a file that cannot be read or
\* parsed, or holds no JSON object; "json", an object with the data.
AbsentFile == [kind |-> "absent", data |-> EmptyConfig]
GarbageFile == [kind |-> "garbage", data |-> EmptyConfig]
JsonFile(c) == [kind |-> "json", data |-> c]
NotCalled == [valid |-> FALSE, result |-> "not called"]
NoCur == [req |-> NoReq, after |-> "other", handleKind |-> "absent",
          probe |-> Raised]

\* config.get('setup_complete') and config.get('chatterbox_dir')
setup_done(file) ==
    file.kind = "json" /\ file.data.setup_complete /\ file.data.chatterbox_dir # ""

\* A startup that takes a saved config with setup_complete as it is.
MainTrustsSavedConfig(reconfigure) ==
    /\ pc = "boot"
    /\ LET file == IF reconfigure THEN AbsentFile ELSE cfgfile
       IN  /\ cfgfile' = file
           /\ config' = IF file.kind = "json" THEN file.data ELSE config
           /\ pc' = IF setup_done(file) THEN "idle" ELSE "setup"
    /\ UNCHANGED <<platform, proc, chatterbox_process, fs, resolver, cur,
                   resp, auto, vpath, vres>>

\* main() up to serve_forever or to the wizard: --reconfigure removes the
\* file; load_or_setup_config returns the loaded config if its folder
\* validates, and calls run_setup_wizard in every other case.
Main(reconfigure) ==
    /\ pc = "boot"
    /\ LET file == IF reconfigure THEN AbsentFile ELSE cfgfile
           dir == file.data.chatterbox_dir
           v == validate_chatterbox_dir(dir)
       IN  /\ cfgfile' = file
           /\ config' = IF file.kind = "json" THEN file.data ELSE config
           /\ vpath' = IF setup_done(file) THEN dir ELSE vpath
           /\ vres' = IF setup_done(file) THEN v ELSE vres
           /\ pc' = IF setup_done(file) /\ v.valid THEN "idle" ELSE "setup"
    /\ UNCHANGED <<platform, proc, chatterbox_process, fs, resolver, cur,
                   resp, auto>>

\* The wizard ends the agent: sys.exit(1).
SetupExit(a, dir, v) ==
    /\ pc' = "exited"
    /\ auto' = a
    /\ vpath' = IF dir = "" THEN vpath ELSE dir
    /\ vres' = IF dir = "" THEN vres ELSE v
    /\ UNCHANGED <<config, cfgfile>>

\* run_setup_wizard: accept is the answer to "Use this location?", picked
\* the folder picker's result ("" is None), typed the path typed in, saved
\* whether the config file could be written.
run_setup_wizard(accept, picked, typed, saved) ==
    /\ pc = "setup"
    /\ LET a == find_chatterbox_auto
           chosen == IF a.path # "" /\ accept THEN a.path ELSE ""
           dir == IF chosen # "" THEN chosen
                  ELSE IF picked # "" THEN picked ELSE typed
           v == validate_chatterbox_dir(dir)
           new_config == [chatterbox_dir |-> dir, chatterbox_script |-> v.result,
                          chatterbox_port |-> CHATTERBOX_PORT,
                          agent_port |-> DEFAULT_PORT, setup_complete |-> TRUE]
       IN  IF dir = "" \/ ~v.valid THEN SetupExit(a, dir, v)
           ELSE /\ pc' = "idle"
                /\ auto' = a
                /\ vpath' = dir
                /\ vres' = v
                /\ config' = new_config
                /\ cfgfile' = IF saved THEN JsonFile(new_config) ELSE cfgfile
    /\ UNCHANGED <<platform, proc, chatterbox_process, fs, resolver, cur, resp>>

\* An interrupt that stops the companion the handle refers to.
InterruptStopsCompanion ==
    /\ pc \in {"idle", "start_sleep", "stop_sleep"}
    /\ pc' = "terminated"
    /\ cur' = NoCur
    /\ resp' = NoResp
    /\ proc' = kill_handle(proc, chatterbox_process, "killed")
    /\ UNCHANGED <<platform, chatterbox_process, config, fs, resolver,
                   vpath, vres, cfgfile, auto>>

\* Ctrl+C: KeyboardInterrupt leaves serve_forever (from its wait or from
\* the sleep of a handler, whose request gets no response); main prints,
\* calls server.shutdown() and returns.
Interrupt ==
    /\ pc \in {"idle", "start_sleep", "stop_sleep"}
    /\ pc' = "terminated"
    /\ cur' = NoCur
    /\ resp' = NoResp
    /\ UNCHANGED <<platform, proc, chatterbox_process, config, fs, resolver,
                   vpath, vres, cfgfile, auto>>

\* The agent is started again and reaches serve_forever by the path of
\* load_or_setup_config that returns the saved config: the module body sets
\* chatterbox_process = None, the saved folder validates.
Restart ==
    /\ pc = "terminated"
    /\ setup_done(cfgfile)
    /\ validate_chatterbox_dir(cfgfile.data.chatterbox_dir).valid
    /\ pc' = "idle"
    /\ chatterbox_process' = 0
    /\ proc' = forget(proc, 0)
    /\ config' = cfgfile.data
    /\ vpath' = cfgfile.data.chatterbox_dir
    /\ vres' = validate_chatterbox_dir(cfgfile.data.chatterbox_dir)
    /\ UNCHANGED <<platform, fs, resolver, cur, resp, cfgfile, auto>>

\* --------------------------------------------------------- specification
\* The state when serve_forever starts: load_or_setup_config has returned a
\* configuration whose folder validated; no handle; the port may be held by
\* a process of an earlier session.
InitAgent ==
    /\ chatterbox_process = 0
    /\ config = [chatterbox_dir |-> "d1", chatterbox_script |-> "server.py",
                 chatterbox_port |-> CHATTERBOX_PORT, agent_port |-> DEFAULT_PORT,
                 setup_complete |-> TRUE]
    /\ resolver = TRUE
    /\ pc = "idle"
    /\ cur = NoCur
    /\ resp = NoResp

Init ==
    /\ InitAgent
    /\ platform \in Platforms
    /\ proc \in {[x \in Procs |-> IF x = Foreign THEN s ELSE "none"] :
                   s \in {"none", "bound", "serving"}}
    /\ fs = [d \in Dirs |-> IF d = "d1"
                            THEN [kind |-> "dir", entries |-> {"server.py", "readme.txt"}]
                            ELSE Missing]
    /\ vpath = config.chatterbox_dir
    /\ vres = validate_chatterbox_dir(config.chatterbox_dir)
    /\ cfgfile = JsonFile(config)
    /\ auto = [path |-> "", script |-> "not called"]

Next ==
    \/ \E req \in Requests : UnsupportedMethod(req)
    \/ \E req \in Requests : do_OPTIONS(req)
    \/ \E req \in Requests : GetAgentStatus(req)
    \/ \E req \in Requests : GetChatterboxStatus(req)
    \/ \E req \in Requests : GetNotFound(req)
    \/ \E req \in Requests : PostNotFound(req)
    \/ \E req \in Requests, spawnOK \in BOOLEAN : PostStart(req, spawnOK)
    \/ StartReturn
    \/ \E req \in Requests, kill \in {"killed", "survived", "raised"},
          sweep \in {"killed", "survived"} : PostStop(req, kill, sweep)
    \/ StopReturn
    \/ \E x \in Procs : Binds(x)
    \/ \E x \in Procs : Serves(x)
    \/ \E x \in Procs : Exits(x)
    \/ RemoveDir
    \/ ResolverChanges
    \/ Interrupt
    \/ Restart

Spec == Init /\ [][Next]_vars

\* validate_chatterbox_dir on its own: any file system, any argument.
InitValidate ==
    /\ InitAgent
    /\ platform \in Platforms
    /\ proc = [x \in Procs |-> "none"]
    /\ fs \in [Dirs -> FsEntries]
    /\ vpath = ""
    /\ vres = NotCalled
    /\ cfgfile = JsonFile(config)
    /\ auto = [path |-> "", script |-> "not called"]

Validate(path) ==
    /\ vpath' = path
    /\ vres' = validate_chatterbox_dir(path)
    /\ UNCHANGED <<platform, proc, chatterbox_process, config, fs, resolver,
                   pc, cur, resp, cfgfile, auto>>

NextValidate == \E path \in Paths : Validate(path)

SpecValidate == InitValidate /\ [][NextValidate]_vars

\* The startup of the agent, main() up to serve_forever: any file system,
\* any config file.
SavedConfigs ==
    {[EmptyConfig EXCEPT !.chatterbox_dir = d, !.setup_complete = c] :
        d \in Paths, c \in BOOLEAN}

InitStartup ==
    /\ platform \in Platforms
    /\ proc = [x \in Procs |-> "none"]
    /\ chatterbox_process = 0
    /\ config = EmptyConfig
    /\ fs \in [Dirs -> FsEntries]
    /\ resolver = TRUE
    /\ pc = "boot"
    /\ cur = NoCur
    /\ resp = NoResp
    /\ vpath = ""
    /\ vres = NotCalled
    /\ cfgfile \in {AbsentFile, GarbageFile} \cup {JsonFile(c) : c \in SavedConfigs}
    /\ auto = [path |-> "", script |-> "not called"]

NextStartup ==
    \/ \E reconfigure \in BOOLEAN : Main(reconfigure)
    \/ \E accept \in BOOLEAN, picked \in Paths, typed \in Paths,
          saved \in BOOLEAN : run_setup_wizard(accept, picked, typed, saved)

SpecStartup == InitStartup /\ [][NextStartup]_vars

\* ------------------------------------------------------------- properties
SpawnedAlive == {x \in Spawned : IsAlive(proc, x)}

\* A step in which the server takes a request of kind op and runs its
\* handler (to its return, or to its sleep).
Handles(op) ==
    /\ pc = "idle"
    /\ OpOf(cur'.req) = op
    /\ cur' # cur \/ resp' # resp \/ pc' # pc

\* C1: a Start() made directly after a Start() that spawned the companion
\* spawns nothing (and reports alreadyRunning); stated for the case the
\* claim insists on, where the first companion is still alive: while the
\* second Start() sleeps after a spawn, no other spawned companion is alive.
C1_SecondStartSpawnsNothing ==
    (OpOf(cur.req) = "start" /\ cur.after = "spawned" /\ pc = "start_sleep")
        => SpawnedAlive \subseteq {chatterbox_process}

\* C2: never more than one companion spawned by the agent is alive at a time.
C2_AtMostOneCompanionAlive == Cardinality(SpawnedAlive) <= 1

\* C3: a Stop() called after a Start() that returned success (spawned or
\* alreadyRunning) does not return "Failed to stop": its probe after the
\* settle period finds nothing running. The claim is for every platform;
\* it is stated here for Posix.
C3_StopAfterStartSucceeds ==
    ( /\ platform = "Posix"
      /\ pc = "idle" /\ OpOf(cur.req) = "stop"
      /\ cur.after \in {"spawned", "already"} )
        => resp # FailedToStop

\* C4: Stop() called while the liveness probe is false and the handle is
\* absent or stale ends no live process and creates none, and, the probe
\* being still false after the settle period, returns success and changes
\* nothing more; this holds of every such call, a repeated one included.
C4_StopWhenNothingRunning ==
    [][ /\ ( /\ Handles("stop")
             /\ is_chatterbox_running = Returned(FALSE)
             /\ HandleKind(chatterbox_process) # "live" )
            => \A x \in Procs : IsAlive(proc, x) <=> IsAlive(proc', x)
        /\ ( /\ pc = "stop_sleep" /\ pc' = "idle"
             /\ cur.probe = Returned(FALSE)
             /\ cur.handleKind # "live"
             /\ is_chatterbox_running = Returned(FALSE) )
            => /\ resp' = Stopped
               /\ resp'.body.success
               /\ UNCHANGED <<proc, chatterbox_process>>
      ]_vars

\* C4 witness: a Stop() entered with a stale handle and nothing running has
\* returned success under Windows, where the port sweep runs.
C4_Witness ==
    /\ pc = "idle" /\ OpOf(cur.req) = "stop"
    /\ cur.probe = Returned(FALSE) /\ cur.handleKind = "stale"
    /\ platform = "Windows"
    /\ resp = Stopped

\* C5 as claimed: Start() with the installation folder missing returns
\* success=false naming the script path and leaves processes and handle
\* alone, whatever holds the port (the probe itself returning a value).
C5_MissingDirAlwaysFails ==
    [][ ( /\ Handles("start")
          /\ ~isdir(config.chatterbox_dir)
          /\ ~is_chatterbox_running.raised )
         => /\ resp' = ScriptNotFound
            /\ UNCHANGED <<proc, chatterbox_process>>
      ]_vars

\* C5 amended: Start() with the installation folder missing, called while
\* IsRunning() is false, returns success=false with an error that holds the
\* missing script path, spawns nothing and leaves the handle unchanged.
C5_MissingDirFailsWhenNotRunning ==
    [][ ( /\ Handles("start")
          /\ ~isdir(config.chatterbox_dir)
          /\ is_chatterbox_running = Returned(FALSE) )
         => /\ pc' = "idle"
            /\ resp'.status = 200
            /\ Has(resp'.body, "success") /\ ~resp'.body.success
            /\ Has(resp'.body, "error")
            /\ resp'.body.error.path =
                   <<config.chatterbox_dir, config.chatterbox_script>>
            /\ UNCHANGED <<proc, chatterbox_process>>
      ]_vars

\* C5 witness: a Start() has answered "Script not found" and the folder is
\* missing.
C5_Witness ==
    /\ pc = "idle" /\ OpOf(cur.req) = "start"
    /\ ~isdir(config.chatterbox_dir)
    /\ resp = ScriptNotFound

\* C6: IsRunning() returns true exactly when the HTTP GET is answered or a
\* TCP connect to the port succeeds; true when a process holds the port and
\* answers no HTTP; false when the connect is refused.
C6_IsRunningExactly ==
    LET answered == resolver /\ \E x \in Procs : proc[x] = "serving"
        connects == resolver /\ \E x \in Procs : proc[x] \in {"bound", "serving"}
        refused == resolver /\ \A x \in Procs : proc[x] \notin {"bound", "serving"}
    IN  /\ (is_chatterbox_running = Returned(TRUE)) <=> (answered \/ connects)
        /\ (connects /\ ~answered) => is_chatterbox_running = Returned(TRUE)
        /\ refused => is_chatterbox_running = Returned(FALSE)

\* C6 witness: GET /chatterbox/status has reported running=true while the
\* port is held by a process the agent did not spawn that answers no HTTP.
C6_Witness ==
    /\ pc = "idle"
    /\ cur.req = [method |-> "GET", target |-> <<"/chatterbox/status">>]
    /\ resp.kind = "json" /\ resp.body.running
    /\ proc[Foreign] = "bound"
    /\ \A x \in Procs : proc[x] # "serving"

\* C7: when Start() returns after a spawn and IsRunning() does not pass at
\* that moment, the result carries the note "may still be initializing".
C7_NoteWhenNotYetRunning ==
    [][ ( /\ pc = "start_sleep" /\ pc' = "idle"
          /\ is_chatterbox_running # Returned(TRUE) )
         => Has(resp'.body, "note")
      ]_vars

\* C8: no request ends with an exception escaping Start(), Stop() or
\* IsRunning(): every request is answered.
C8_NoExceptionEscapes == resp # Exception

\* C9: every request outside the routing table is answered 404 with the
\* JSON body {error: "Not found"}.
InRoutingTable(req) ==
    LET path == split0(req.target) IN
    \/ req.method = "OPTIONS"
    \/ req.method = "GET"
         /\ path \in {<<"/">>, <<"/status">>, <<"/chatterbox/status">>}
    \/ req.method = "POST"
         /\ path \in {<<"/chatterbox/start">>, <<"/chatterbox/stop">>}

C9_UnmatchedIs404 ==
    (pc = "idle" /\ cur.req # NoReq /\ ~InRoutingTable(cur.req))
        => resp = NotFound

\* C10: Validate(dir) is valid iff dir is a directory that holds at least
\* one recognized script; the script returned is then the first present one
\* in the order server.py, run_api_server.py, app.py; otherwise a reason.
C10_ValidateFirstMatch ==
    vres.result # "not called" =>
        LET present == {i \in 1..3 :
                          /\ vpath \in DOMAIN fs
                          /\ fs[vpath].kind = "dir"
                          /\ <<"server.py", "run_api_server.py", "app.py">>[i]
                                 \in fs[vpath].entries}
        IN  /\ vres.valid <=> present # {}
            /\ vres.valid =>
                 \E i \in present :
                    /\ \A j \in present : i <= j
                    /\ vres.result =
                         <<"server.py", "run_api_server.py", "app.py">>[i]
            /\ ~vres.valid =>
                 vres.result \in {"Directory does not exist",
                                  "Could not find Chatterbox scripts in this folder"}

\* C10 witness: a folder without server.py that holds both other scripts
\* validated with run_api_server.py.
C10_Witness ==
    /\ vres.valid /\ vres.result = "run_api_server.py"
    /\ "app.py" \in fs[vpath].entries

\* C11: find_chatterbox_auto returns the first folder of its candidate list
\* that validate_chatterbox_dir accepts, with the script validation returns
\* for that folder; it returns (None, None) when no candidate validates.
C11_AutoDetectFirstValid ==
    auto.script # "not called" =>
        LET valid == {i \in 1..Len(common_locations) :
                        validate_chatterbox_dir(common_locations[i]).valid}
        IN  IF valid = {} THEN auto.path = "" /\ auto.script = ""
            ELSE \E i \in valid :
                    /\ \A j \in valid : i <= j
                    /\ auto.path = common_locations[i]
                    /\ auto.script =
                          validate_chatterbox_dir(common_locations[i]).result

\* C11 witness: with two valid candidates the earlier one was returned,
\* with a script that is not the first of the list.
C11_Witness ==
    /\ auto.path = "d1" /\ auto.script = "run_api_server.py"
    /\ validate_chatterbox_dir("d2").valid
    /\ validate_chatterbox_dir("d2").result = "server.py"

\* C12: every Stop() ends whatever process holds the companion port, on
\* every platform and without a handle: once Stop() has made its kills, no
\* process holds the port. Stated for the claim's example: Posix, no handle.
C12_StopSweepsPort ==
    [][ ( /\ Handles("stop")
          /\ platform = "Posix"
          /\ chatterbox_process = 0 )
         => Holders(proc') = {}
      ]_vars

\* C13: once a Stop() has returned, with success or with failure, the handle
\* is absent, whatever became of the kill of the process it referred to.
C13_HandleAbsentAfterStop ==
    ( /\ pc = "idle" /\ OpOf(cur.req) = "stop"
      /\ resp \in {Stopped, FailedToStop} )
        => chatterbox_process = 0

\* C14: Stop() returns success=true exactly when the liveness probe made
\* after the settle period reports not-running, whatever the kill of the
\* handle and the port sweep did; a failure result is the generic error and
\* nothing else.
C14_StopResultIsProbe ==
    [][ ( /\ pc = "stop_sleep" /\ pc' = "idle"
          /\ ~is_chatterbox_running.raised )
         => /\ Has(resp'.body, "success")
            /\ resp'.body.success <=> ~is_chatterbox_running.value
            /\ ~resp'.body.success =>
                 /\ DOMAIN resp'.body = {"success", "error"}
                 /\ resp'.body.error = "Failed to stop"
      ]_vars

\* C14 witness: a Stop() that was entered with a live handle and cleared it
\* has returned the generic failure.
C14_Witness ==
    /\ pc = "idle" /\ OpOf(cur.req) = "stop"
    /\ cur.handleKind = "live"
    /\ chatterbox_process = 0
    /\ resp = FailedToStop

\* C15: Start() called while IsRunning() is true returns {success: true,
\* alreadyRunning: true} and does nothing: no process is created or ended,
\* handle and configuration stay as they are, also when the configured
\* script does not exist.
C15_StartWhenRunningIsNoOp ==
    [][ ( /\ Handles("start")
          /\ is_chatterbox_running = Returned(TRUE) )
         => /\ pc' = "idle"
            /\ resp' = AlreadyRunning
            /\ resp'.body.success /\ resp'.body.alreadyRunning
            /\ UNCHANGED <<proc, chatterbox_process, config, cfgfile>>
      ]_vars

\* C15 witness: Start() has answered alreadyRunning while the configured
\* script does not exist and a process holds the port.
C15_Witness ==
    /\ pc = "idle" /\ OpOf(cur.req) = "start"
    /\ resp = AlreadyRunning
    /\ ~exists(script_path)
    /\ Holders(proc) # {}

\* C16: the agent starts to serve only with a configuration whose folder
\* passed validate_chatterbox_dir during this startup. A config file that
\* is absent, unreadable, without setup_complete, or whose folder does not
\* validate leads to the setup wizard; the wizard ends in a validated
\* configuration or in the exit of the agent.
C16_ServesOnlyValidated ==
    [][ /\ ( /\ pc = "boot"
             /\ \/ cfgfile.kind # "json"
                \/ ~cfgfile.data.setup_complete
                \/ ~validate_chatterbox_dir(cfgfile.data.chatterbox_dir).valid )
            => pc' = "setup"
        /\ pc = "setup" => pc' \in {"idle", "exited"}
        /\ (pc \in {"boot", "setup"} /\ pc' = "idle")
            => /\ vres'.valid
               /\ vpath' = config'.chatterbox_dir
               /\ config'.setup_complete
               /\ config'.chatterbox_script = vres'.result
                    \/ pc = "boot"
               /\ validate_chatterbox_dir(config'.chatterbox_dir).valid
      ]_vars

\* C16 witness: the agent serves with a folder the wizard validated, while
\* the config file, which could not be rewritten, still names with
\* setup_complete a folder that does not validate.
C16_Witness ==
    /\ pc = "idle"
    /\ auto.script # "not called"
    /\ vres.valid /\ vpath = config.chatterbox_dir
    /\ cfgfile.kind = "json" /\ cfgfile.data.setup_complete
    /\ cfgfile.data.chatterbox_dir # ""
    /\ ~validate_chatterbox_dir(cfgfile.data.chatterbox_dir).valid

\* C17: the interrupt that ends the agent stops nothing: every process is
\* as it was, the companion included, spawned by the agent or not. An agent
\* started afterwards has no handle, and while that companion holds the port
\* its liveness probe is true.
C17_InterruptLeavesCompanion ==
    [][ /\ (pc # "terminated" /\ pc' = "terminated") => proc' = proc
        /\ (pc = "terminated" /\ pc' = "idle")
            => /\ chatterbox_process' = 0
               /\ \A x \in Procs : IsAlive(proc', x) <=> IsAlive(proc, x)
               /\ Holders(proc') = Holders(proc)
               /\ (resolver' /\ Holders(proc) # {})
                    => is_chatterbox_running' = Returned(TRUE)
      ]_vars

\* C17 witness: a new agent instance that has handled no request yet has no
\* handle, and a companion spawned by the instance before it holds the port.
C17_Witness ==
    /\ pc = "idle" /\ cur = NoCur
    /\ chatterbox_process = 0
    /\ \E x \in Spawned : proc[x] \in {"bound", "serving"}
    /\ is_chatterbox_running = Returned(TRUE)

\* C18: the server handles one request at a time: while a Start() or a
\* Stop() is in progress (it has made its probe and its spawn or kills and
\* sleeps), no other request is taken and nothing writes the handle; the
\* next request is taken only when the handler has returned.
C18_OneRequestAtATime ==
    [][ /\ pc \in {"start_sleep", "stop_sleep"}
            => /\ chatterbox_process' = chatterbox_process
               /\ cur' = cur \/ pc' = "terminated"
               /\ resp' # resp => pc' = "idle"
        /\ (cur' # cur /\ cur'.req # NoReq) => pc = "idle"
      ]_vars

\* C18 witness: a Stop() is in progress that was taken after the Start()
\* before it, sleep included, had returned its result.
C18_Witness ==
    /\ pc = "stop_sleep"
    /\ OpOf(cur.req) = "stop" /\ cur.after = "spawned"
    /\ cur.handleKind = "live"

\* C19: within one run of the agent the handle changes in two ways only:
\* a Start() that spawned a process sets it to that process, and a Stop()
\* clears it. Requests that are neither, a Start() that returns without a
\* spawn, and the exit of a process on its own leave the handle and the
\* configuration as they are, and the requests leave every process as it
\* is: a handle that is present says a spawn happened, not that the process
\* is alive.
C19_HandleChangesOnlyBySpawnAndStop ==
    [][ /\ (pc # "terminated" /\ chatterbox_process' # chatterbox_process)
            => \/ /\ Handles("start") /\ pc' = "start_sleep"
                  /\ chatterbox_process' \in Spawned
                  /\ ~IsAlive(proc, chatterbox_process')
                  /\ IsAlive(proc', chatterbox_process')
               \/ /\ Handles("stop") /\ chatterbox_process' = 0
        /\ (Handles("other") \/ (Handles("start") /\ pc' = "idle"))
            => UNCHANGED <<chatterbox_process, config, cfgfile, proc>>
        /\ (pc' = pc /\ cur' = cur /\ resp' = resp)
            => UNCHANGED <<chatterbox_process, config, cfgfile>>
      ]_vars

\* C19 witness: GET /chatterbox/status has reported processManaged=true and
\* running=false: the process of the handle has exited.
C19_Witness ==
    /\ pc = "idle"
    /\ cur.req = [method |-> "GET", target |-> <<"/chatterbox/status">>]
    /\ resp.kind = "json"
    /\ resp.body.processManaged /\ ~resp.body.running
    /\ chatterbox_process # 0
    /\ proc[chatterbox_process] = "exited"

====
